---- MODULE Spec2Model ----
(***************************************************************************)
(* Concept-extraction service of nad-devs/Recall                           *)
(* (src/api/v1/extract_concepts.py, the deployed FastAPI application).     *)
(*                                                                         *)
(* The module models the ConceptExtractor pipeline (result cache,          *)
(* single-pass analysis, segmentation, per-segment analysis, response      *)
(* parsing, fallback extraction, deduplication and technique enrichment),  *)
(* the CategoryLearning store with the manual-category-update endpoint,    *)
(* and the category normalizer.                                            *)
(*                                                                         *)
(* Python strings are TLA+ strings.  The string functions the code applies *)
(* (lower(), slicing, len(), re.findall, the "in" substring test) are      *)
(* given as tables over the finite universe of strings the model uses;     *)
(* every table entry is the value the Python expression has on that string.*)
(* Confidence scores are percentages (0.8 is 80).                          *)
(***************************************************************************)
EXTENDS Integers, Sequences, FiniteSets, TLC

VARIABLES
  cache,     \* concept_extractor.cache: conversation text -> stored result
  learned,   \* concept_extractor.category_learning.learned_mappings
  file,      \* category_learning.json, the persisted learned-mapping document
  corrections, \* the manual category updates answered with success, in order
  req,       \* the in-flight /extract-concepts requests, one per worker
  started,   \* number of /extract-concepts requests accepted so far
  returned,  \* conversation text -> the first response returned for it since the process started
  fb,        \* input and output of a _fallback_extraction run
  sg,        \* input and output of a _segment_conversation run
  pp,        \* input and output of a post-processing run
  nz,        \* input and output of a _normalize_category run
  an         \* the analysis of one segment by _analyze_segment, step by step

vars == <<cache, learned, file, corrections, req, started, returned, fb, sg, pp, nz, an>>

None == "None"      \* Python None
Absent == "<absent>" \* a key a dict does not have

(***************************************************************************)
(* String tables                                                           *)
(***************************************************************************)

DefaultCategories ==
  << "Data Structures and Algorithms",
     "Data Structures",
     "Algorithms",
     "Algorithm Technique",
     "LeetCode Problems",
     "Backend Engineering",
     "Backend Engineering > Authentication",
     "Backend Engineering > Storage",
     "Backend Engineering > APIs",
     "Backend Engineering > Databases",
     "Frontend Engineering",
     "Frontend Engineering > React",
     "Frontend Engineering > Next.js",
     "Frontend Engineering > CSS",
     "Cloud Engineering",
     "Cloud Engineering > AWS",
     "DevOps",
     "JavaScript",
     "TypeScript",
     "Python",
     "System Design",
     "Machine Learning",
     "General",
     "Finance",
     "Finance > Investment",
     "Finance > Personal Finance",
     "Finance > Business Finance",
     "Finance > Stock Analysis",
     "Psychology",
     "Psychology > Behavioral",
     "Psychology > Cognitive",
     "Business",
     "Business > Strategy",
     "Business > Management",
     "Business > Marketing",
     "Health",
     "Health > Nutrition",
     "Health > Fitness",
     "Education",
     "Education > Learning Methods",
     "Science",
     "Science > Physics",
     "Science > Biology",
     "Philosophy",
     "History",
     "Politics",
     "Economics",
     "Arts",
     "Literature",
     "Travel",
     "Lifestyle",
     "Miscellaneous" >>

LowerPairs ==
  { <<"Algorithm Technique", "algorithm technique">>,
    <<"Backend Engineering > API Design", "backend engineering > api design">>,
    <<"LeetCode", "leetcode">>,
    <<"Algorithms", "algorithms">>,
    <<"Arts", "arts">>,
    <<"Backend Engineering", "backend engineering">>,
    <<"Backend Engineering > APIs", "backend engineering > apis">>,
    <<"Backend Engineering > Authentication", "backend engineering > authentication">>,
    <<"Backend Engineering > Databases", "backend engineering > databases">>,
    <<"Backend Engineering > Storage", "backend engineering > storage">>,
    <<"Binary Search", "binary search">>,
    <<"Budgeting Basics", "budgeting basics">>,
    <<"Business", "business">>,
    <<"Business > Management", "business > management">>,
    <<"Business > Marketing", "business > marketing">>,
    <<"Business > Strategy", "business > strategy">>,
    <<"Cloud Engineering", "cloud engineering">>,
    <<"Cloud Engineering > AWS", "cloud engineering > aws">>,
    <<"Contains Duplicate", "contains duplicate">>,
    <<"Data Structure", "data structure">>,
    <<"Data Structures", "data structures">>,
    <<"Data Structures and Algorithms", "data structures and algorithms">>,
    <<"DevOps", "devops">>,
    <<"Economics", "economics">>,
    <<"Education", "education">>,
    <<"Education > Learning Methods", "education > learning methods">>,
    <<"Finance", "finance">>,
    <<"Finance > Business Finance", "finance > business finance">>,
    <<"Finance > Investment", "finance > investment">>,
    <<"Finance > Personal Finance", "finance > personal finance">>,
    <<"Finance > Stock Analysis", "finance > stock analysis">>,
    <<"Frequency Counting", "frequency counting">>,
    <<"Frontend Engineering", "frontend engineering">>,
    <<"Frontend Engineering > CSS", "frontend engineering > css">>,
    <<"Frontend Engineering > Next.js", "frontend engineering > next.js">>,
    <<"Frontend Engineering > React", "frontend engineering > react">>,
    <<"Gardening", "gardening">>,
    <<"General", "general">>,
    <<"Hash Table", "hash table">>,
    <<"Health", "health">>,
    <<"Health > Fitness", "health > fitness">>,
    <<"Health > Nutrition", "health > nutrition">>,
    <<"History", "history">>,
    <<"JavaScript", "javascript">>,
    <<"Key Insights", "key insights">>,
    <<"LeetCode Problems", "leetcode problems">>,
    <<"Lifestyle", "lifestyle">>,
    <<"Literature", "literature">>,
    <<"Machine Learning", "machine learning">>,
    <<"Miscellaneous", "miscellaneous">>,
    <<"Philosophy", "philosophy">>,
    <<"Politics", "politics">>,
    <<"Programming Concept", "programming concept">>,
    <<"Psychology", "psychology">>,
    <<"Psychology > Behavioral", "psychology > behavioral">>,
    <<"Psychology > Cognitive", "psychology > cognitive">>,
    <<"Python", "python">>,
    <<"React hooks", "react hooks">>,
    <<"Science", "science">>,
    <<"Science > Biology", "science > biology">>,
    <<"Science > Physics", "science > physics">>,
    <<"Sliding Window", "sliding window">>,
    <<"System Design", "system design">>,
    <<"Travel", "travel">>,
    <<"Two Pointer Technique", "two pointer technique">>,
    <<"Two Sum Problem", "two sum problem">>,
    <<"TypeScript", "typescript">>,
    <<"UNCATEGORIZED", "uncategorized">>,
    <<"Uncategorized", "uncategorized">>,
    <<"Untitled Concept", "untitled concept">> }

UpperPairs ==
  { <<"Algorithm Technique", "ALGORITHM TECHNIQUE">>,
    <<"Algorithms", "ALGORITHMS">>,
    <<"Arts", "ARTS">>,
    <<"Backend Engineering", "BACKEND ENGINEERING">>,
    <<"Backend Engineering > APIs", "BACKEND ENGINEERING > APIS">>,
    <<"Backend Engineering > Authentication", "BACKEND ENGINEERING > AUTHENTICATION">>,
    <<"Backend Engineering > Databases", "BACKEND ENGINEERING > DATABASES">>,
    <<"Backend Engineering > Storage", "BACKEND ENGINEERING > STORAGE">>,
    <<"Business", "BUSINESS">>,
    <<"Business > Management", "BUSINESS > MANAGEMENT">>,
    <<"Business > Marketing", "BUSINESS > MARKETING">>,
    <<"Business > Strategy", "BUSINESS > STRATEGY">>,
    <<"Cloud Engineering", "CLOUD ENGINEERING">>,
    <<"Cloud Engineering > AWS", "CLOUD ENGINEERING > AWS">>,
    <<"Data Structure", "DATA STRUCTURE">>,
    <<"Data Structures", "DATA STRUCTURES">>,
    <<"Data Structures and Algorithms", "DATA STRUCTURES AND ALGORITHMS">>,
    <<"DevOps", "DEVOPS">>,
    <<"Economics", "ECONOMICS">>,
    <<"Education", "EDUCATION">>,
    <<"Education > Learning Methods", "EDUCATION > LEARNING METHODS">>,
    <<"Finance", "FINANCE">>,
    <<"Finance > Business Finance", "FINANCE > BUSINESS FINANCE">>,
    <<"Finance > Investment", "FINANCE > INVESTMENT">>,
    <<"Finance > Personal Finance", "FINANCE > PERSONAL FINANCE">>,
    <<"Finance > Stock Analysis", "FINANCE > STOCK ANALYSIS">>,
    <<"Frontend Engineering", "FRONTEND ENGINEERING">>,
    <<"Frontend Engineering > CSS", "FRONTEND ENGINEERING > CSS">>,
    <<"Frontend Engineering > Next.js", "FRONTEND ENGINEERING > NEXT.JS">>,
    <<"Frontend Engineering > React", "FRONTEND ENGINEERING > REACT">>,
    <<"Gardening", "GARDENING">>,
    <<"General", "GENERAL">>,
    <<"Health", "HEALTH">>,
    <<"Health > Fitness", "HEALTH > FITNESS">>,
    <<"Health > Nutrition", "HEALTH > NUTRITION">>,
    <<"History", "HISTORY">>,
    <<"JavaScript", "JAVASCRIPT">>,
    <<"LeetCode Problems", "LEETCODE PROBLEMS">>,
    <<"Lifestyle", "LIFESTYLE">>,
    <<"Literature", "LITERATURE">>,
    <<"Machine Learning", "MACHINE LEARNING">>,
    <<"Miscellaneous", "MISCELLANEOUS">>,
    <<"Philosophy", "PHILOSOPHY">>,
    <<"Politics", "POLITICS">>,
    <<"Psychology", "PSYCHOLOGY">>,
    <<"Psychology > Behavioral", "PSYCHOLOGY > BEHAVIORAL">>,
    <<"Psychology > Cognitive", "PSYCHOLOGY > COGNITIVE">>,
    <<"Python", "PYTHON">>,
    <<"React hooks", "REACT HOOKS">>,
    <<"Science", "SCIENCE">>,
    <<"Science > Biology", "SCIENCE > BIOLOGY">>,
    <<"Science > Physics", "SCIENCE > PHYSICS">>,
    <<"System Design", "SYSTEM DESIGN">>,
    <<"Travel", "TRAVEL">>,
    <<"TypeScript", "TYPESCRIPT">>,
    <<"Uncategorized", "UNCATEGORIZED">>,
    <<"compost rotation tips", "COMPOST ROTATION TIPS">>,
    <<"finance", "FINANCE">>,
    <<"general", "GENERAL">>,
    <<"mental models", "MENTAL MODELS">>,
    <<"uncategorized", "UNCATEGORIZED">> }

SigWordsPairs ==
  { <<"Algorithm Technique", {"algorithm", "technique"}>>,
    <<"Algorithms", {"algorithms"}>>,
    <<"Arts", {"arts"}>>,
    <<"Backend Engineering", {"backend", "engineering"}>>,
    <<"Backend Engineering > APIs", {"apis", "backend", "engineering"}>>,
    <<"Backend Engineering > Authentication", {"authentication", "backend", "engineering"}>>,
    <<"Backend Engineering > Databases", {"backend", "databases", "engineering"}>>,
    <<"Backend Engineering > Storage", {"backend", "engineering", "storage"}>>,
    <<"Business", {"business"}>>,
    <<"Business > Management", {"business", "management"}>>,
    <<"Business > Marketing", {"business", "marketing"}>>,
    <<"Business > Strategy", {"business", "strategy"}>>,
    <<"Cloud Engineering", {"cloud", "engineering"}>>,
    <<"Cloud Engineering > AWS", {"cloud", "engineering"}>>,
    <<"Data Structure", {"data", "structure"}>>,
    <<"Data Structures", {"data", "structures"}>>,
    <<"Data Structures and Algorithms", {"algorithms", "data", "structures"}>>,
    <<"DevOps", {"devops"}>>,
    <<"Economics", {"economics"}>>,
    <<"Education", {"education"}>>,
    <<"Education > Learning Methods", {"education", "learning", "methods"}>>,
    <<"Finance", {"finance"}>>,
    <<"Finance > Business Finance", {"business", "finance"}>>,
    <<"Finance > Investment", {"finance", "investment"}>>,
    <<"Finance > Personal Finance", {"finance", "personal"}>>,
    <<"Finance > Stock Analysis", {"analysis", "finance", "stock"}>>,
    <<"Frontend Engineering", {"engineering", "frontend"}>>,
    <<"Frontend Engineering > CSS", {"engineering", "frontend"}>>,
    <<"Frontend Engineering > Next.js", {"engineering", "frontend", "next"}>>,
    <<"Frontend Engineering > React", {"engineering", "frontend", "react"}>>,
    <<"Gardening", {"gardening"}>>,
    <<"General", {"general"}>>,
    <<"Health", {"health"}>>,
    <<"Health > Fitness", {"fitness", "health"}>>,
    <<"Health > Nutrition", {"health", "nutrition"}>>,
    <<"History", {"history"}>>,
    <<"JavaScript", {"javascript"}>>,
    <<"LeetCode Problems", {"leetcode", "problems"}>>,
    <<"Lifestyle", {"lifestyle"}>>,
    <<"Literature", {"literature"}>>,
    <<"Machine Learning", {"learning", "machine"}>>,
    <<"Miscellaneous", {"miscellaneous"}>>,
    <<"Philosophy", {"philosophy"}>>,
    <<"Politics", {"politics"}>>,
    <<"Psychology", {"psychology"}>>,
    <<"Psychology > Behavioral", {"behavioral", "psychology"}>>,
    <<"Psychology > Cognitive", {"cognitive", "psychology"}>>,
    <<"Python", {"python"}>>,
    <<"React hooks", {"hooks", "react"}>>,
    <<"Science", {"science"}>>,
    <<"Science > Biology", {"biology", "science"}>>,
    <<"Science > Physics", {"physics", "science"}>>,
    <<"System Design", {"design", "system"}>>,
    <<"Travel", {"travel"}>>,
    <<"TypeScript", {"typescript"}>>,
    <<"UNCATEGORIZED", {"uncategorized"}>>,
    <<"Uncategorized", {"uncategorized"}>>,
    <<"compost rotation", {"compost", "rotation"}>>,
    <<"compost rotation tips", {"compost", "rotation", "tips"}>>,
    <<"finance", {"finance"}>>,
    <<"garden compost rotation schedule", {"compost", "garden", "rotation", "schedule"}>>,
    <<"general", {"general"}>>,
    <<"mental models", {"mental", "models"}>>,
    <<"uncategorized", {"uncategorized"}>>,
    <<"weekly planning notes and general reminders about household chores, errands, meals plus some shoppin", {"about", "chores", "errands", "general", "household", "meals", "notes", "planning", "plus", "reminders", "shoppin", "some", "weekly"}>>,
    <<"weekly planning notes and general reminders about household chores, errands, meals plus some shopping; compost rotation", {"about", "chores", "compost", "errands", "general", "household", "meals", "notes", "planning", "plus", "reminders", "rotation", "shopping", "some", "weekly"}>> }

StrLenPairs ==
  { <<"", 0>>,
    <<"Algorithm Technique", 19>>,
    <<"Algorithms", 10>>,
    <<"Arts", 4>>,
    <<"Backend Engineering", 19>>,
    <<"Backend Engineering > APIs", 26>>,
    <<"Backend Engineering > Authentication", 36>>,
    <<"Backend Engineering > Databases", 31>>,
    <<"Backend Engineering > Storage", 29>>,
    <<"Business", 8>>,
    <<"Business > Management", 21>>,
    <<"Business > Marketing", 20>>,
    <<"Business > Strategy", 19>>,
    <<"Cloud Engineering", 17>>,
    <<"Cloud Engineering > AWS", 23>>,
    <<"Data Structure", 14>>,
    <<"Data Structures", 15>>,
    <<"Data Structures and Algorithms", 30>>,
    <<"DevOps", 6>>,
    <<"Economics", 9>>,
    <<"Education", 9>>,
    <<"Education > Learning Methods", 28>>,
    <<"Finance", 7>>,
    <<"Finance > Business Finance", 26>>,
    <<"Finance > Investment", 20>>,
    <<"Finance > Personal Finance", 26>>,
    <<"Finance > Stock Analysis", 24>>,
    <<"Frontend Engineering", 20>>,
    <<"Frontend Engineering > CSS", 26>>,
    <<"Frontend Engineering > Next.js", 30>>,
    <<"Frontend Engineering > React", 28>>,
    <<"Gardening", 9>>,
    <<"General", 7>>,
    <<"Health", 6>>,
    <<"Health > Fitness", 16>>,
    <<"Health > Nutrition", 18>>,
    <<"History", 7>>,
    <<"JavaScript", 10>>,
    <<"LeetCode Problems", 17>>,
    <<"Lifestyle", 9>>,
    <<"Literature", 10>>,
    <<"Machine Learning", 16>>,
    <<"Miscellaneous", 13>>,
    <<"Philosophy", 10>>,
    <<"Politics", 8>>,
    <<"Psychology", 10>>,
    <<"Psychology > Behavioral", 23>>,
    <<"Psychology > Cognitive", 22>>,
    <<"Python", 6>>,
    <<"React hooks", 11>>,
    <<"Science", 7>>,
    <<"Science > Biology", 17>>,
    <<"Science > Physics", 17>>,
    <<"System Design", 13>>,
    <<"Travel", 6>>,
    <<"TypeScript", 10>>,
    <<"UNCATEGORIZED", 13>>,
    <<"Uncategorized", 13>>,
    <<"compost rotation", 16>>,
    <<"compost rotation tips", 21>>,
    <<"finance", 7>>,
    <<"garden compost rotation schedule", 32>>,
    <<"general", 7>>,
    <<"mental models", 13>>,
    <<"uncategorized", 13>>,
    <<"weekly planning notes and general reminders about household chores, errands, meals plus some shoppin", 100>>,
    <<"weekly planning notes and general reminders about household chores, errands, meals plus some shopping; compost rotation", 119>> }

PreviewPairs ==
  { <<"weekly planning notes and general reminders about household chores, errands, meals plus some shopping; compost rotation", "weekly planning notes and general reminders about household chores, errands, meals plus some shoppin">> }

StaticPairs ==
  { <<"Algorithm Technique", <<"Algorithms", "Algorithm Technique">> >>,
    <<"Algorithms", <<"Algorithms">> >>,
    <<"Arts", <<"TypeScript", "Arts">> >>,
    <<"Backend Engineering", <<"Backend Engineering">> >>,
    <<"Backend Engineering > APIs", <<"Backend Engineering", "Backend Engineering > APIs">> >>,
    <<"Backend Engineering > Authentication", <<"Backend Engineering", "Backend Engineering > Authentication">> >>,
    <<"Backend Engineering > Databases", <<"Backend Engineering", "Backend Engineering > Databases">> >>,
    <<"Backend Engineering > Storage", <<"Backend Engineering", "Backend Engineering > Storage">> >>,
    <<"Business", <<"Business">> >>,
    <<"Business > Management", <<"Business", "Business > Management">> >>,
    <<"Business > Marketing", <<"Business", "Business > Marketing">> >>,
    <<"Business > Strategy", <<"Business", "Business > Strategy">> >>,
    <<"Cloud Engineering", <<"Cloud Engineering">> >>,
    <<"Cloud Engineering > AWS", <<"Cloud Engineering", "Cloud Engineering > AWS">> >>,
    <<"Data Structure", <<"Data Structures">> >>,
    <<"Data Structures", <<"Data Structures">> >>,
    <<"Data Structures and Algorithms", <<"Data Structures", "Algorithms">> >>,
    <<"DevOps", <<"DevOps">> >>,
    <<"Economics", <<"Economics">> >>,
    <<"Education", <<"Education">> >>,
    <<"Education > Learning Methods", <<"Education > Learning Methods", "Education">> >>,
    <<"Finance > Business Finance", <<"Finance > Business Finance", "Business">> >>,
    <<"Finance > Investment", <<"Finance > Investment">> >>,
    <<"Finance > Stock Analysis", <<"Finance > Stock Analysis">> >>,
    <<"Frontend Engineering", <<"Frontend Engineering">> >>,
    <<"Frontend Engineering > CSS", <<"Frontend Engineering", "Frontend Engineering > CSS">> >>,
    <<"Frontend Engineering > Next.js", <<"JavaScript", "Frontend Engineering", "Frontend Engineering > Next.js">> >>,
    <<"Frontend Engineering > React", <<"Frontend Engineering", "Frontend Engineering > React">> >>,
    <<"Health", <<"Health">> >>,
    <<"Health > Fitness", <<"Health", "Health > Fitness">> >>,
    <<"Health > Nutrition", <<"Health", "Health > Nutrition">> >>,
    <<"History", <<"History">> >>,
    <<"JavaScript", <<"JavaScript">> >>,
    <<"LeetCode Problems", <<"LeetCode Problems">> >>,
    <<"Lifestyle", <<"Lifestyle">> >>,
    <<"Literature", <<"Literature">> >>,
    <<"Machine Learning", <<"Machine Learning", "Education > Learning Methods">> >>,
    <<"Philosophy", <<"Philosophy">> >>,
    <<"Politics", <<"Politics">> >>,
    <<"Psychology", <<"Psychology">> >>,
    <<"Psychology > Behavioral", <<"Psychology", "Psychology > Behavioral", "Psychology > Behavioral">> >>,
    <<"Psychology > Cognitive", <<"Psychology", "Psychology > Cognitive">> >>,
    <<"Python", <<"Python">> >>,
    <<"React hooks", <<"Frontend Engineering > React">> >>,
    <<"Science", <<"Science">> >>,
    <<"Science > Biology", <<"Science", "Science > Biology">> >>,
    <<"Science > Physics", <<"Science", "Science > Physics">> >>,
    <<"System Design", <<"System Design">> >>,
    <<"Travel", <<"Travel">> >>,
    <<"TypeScript", <<"TypeScript">> >> }

FallbackPairs ==
  { <<"Business", "Finance">>,
    <<"Business > Management", "Finance">>,
    <<"Business > Marketing", "Finance">>,
    <<"Business > Strategy", "Finance">>,
    <<"Finance", "Finance">>,
    <<"Finance > Business Finance", "Finance">>,
    <<"Finance > Investment", "Finance">>,
    <<"Finance > Personal Finance", "Finance">>,
    <<"Finance > Stock Analysis", "Finance">>,
    <<"Health", "Health">>,
    <<"Health > Fitness", "Health">>,
    <<"Health > Nutrition", "Health">>,
    <<"Psychology", "Psychology">>,
    <<"Psychology > Behavioral", "Psychology">>,
    <<"Psychology > Cognitive", "Psychology">>,
    <<"finance", "Finance">>,
    <<"mental models", "Psychology">> }

ProblemTitles == { "Two Sum Problem", "two sum problem" }

TitleCaseShortTitles ==
  { "Two Sum Problem",
    "Hash Table",
    "Binary Search",
    "Untitled Concept",
    "Key Insights",
    "Contains Duplicate",
    "Frequency Counting",
    "Two Pointer Technique",
    "Sliding Window",
    "Programming Concept",
    "Budgeting Basics" }

PointTechniquePairs ==
  { <<"use a hash map", "Hash Table">>,
    <<"count the frequency of each value", "Frequency Counting">>,
    <<"move the left pointer", "Two Pointer Technique">>,
    <<"shrink the window", "Sliding Window">>,
    <<"hash the window contents", "Hash Table">> }

ContentCategoryPairs ==
  { <<"Budgeting Basics", "Finance">> }

KeywordScorePairs ==
  { <<"how do I split my budget and savings between a react app and an api server", <<3, 2>> >>,
    <<"what did we decide about the two sum question yesterday", <<0, 0>> >>,
    <<"python function over an array", <<3, 0>> >>,
    <<"the budget and savings part", <<0, 2>> >>,
    <<"the lookup part", <<0, 0>> >> }

StripUpperPairs ==
  { <<"non_technical\n", "NON_TECHNICAL">>,
    <<"It is technical.", "IT IS TECHNICAL.">> }

SplitPathPairs ==
  { <<"Backend Engineering > API Design", <<"Backend Engineering", "API Design">> >> }

\* the value a table gives for s, or dflt when s is not listed
Lookup(pairs, s, dflt) ==
  IF \E p \in pairs : p[1] = s THEN (CHOOSE p \in pairs : p[1] = s)[2] ELSE dflt

\* s.lower(): strings not listed are already lower case
Lower(s) == Lookup(LowerPairs, s, s)

\* s.upper(): strings not listed are already upper case
Upper(s) == Lookup(UpperPairs, s, s)

\* len(s)
StrLen(s) == Lookup(StrLenPairs, s, 0)

\* s[:100]: strings not listed have at most 100 characters
Preview(s) == Lookup(PreviewPairs, s, s)

\* set(re.findall(r'\b\w{4,}\b', s.lower()))
SigWords(s) == Lookup(SigWordsPairs, s, {})

\* the categories category_mapping gives for the keywords contained in
\* s.lower(), in the order of the dict
StaticTargets(s) == Lookup(StaticPairs, s, <<>>)

\* the final "context hints" chain of _normalize_category
FallbackBucket(s) == Lookup(FallbackPairs, s, "General")

\* index of the first element of seq satisfying Test, 0 when there is none
FirstIndex(seq, Test(_)) ==
  IF \E i \in DOMAIN seq : Test(seq[i])
  THEN CHOOSE i \in DOMAIN seq : Test(seq[i]) /\ \A j \in 1..(i-1) : ~Test(seq[j])
  ELSE 0

(***************************************************************************)
(* CategoryLearning                                                        *)
(***************************************************************************)

\* the md5-based content key of record_manual_update; distinct lower-cased
\* snippets are taken to have distinct keys
ContentKey(snippet) == Lower(snippet)

MappingEntry(snippet, old, new) ==
  [ key |-> ContentKey(snippet), content_preview |-> Preview(snippet),
    old_category |-> old, new_category |-> new ]

MutRecordDropsOthers(store, snippet, old, new) ==
  << MappingEntry(snippet, old, new) >>

\* self.learned_mappings[content_key] = mapping_entry on an insertion-ordered dict
RecordManualUpdate(store, snippet, old, new) ==
  LET e == MappingEntry(snippet, old, new)
      i == FirstIndex(store, LAMBDA m : m.key = e.key)
  IN IF i = 0 THEN Append(store, e) ELSE [store EXCEPT ![i] = e]

MinPreviewLen == 20
MinOverlap == 2

EntryMatches(m, content) ==
  LET preview == Lower(m.content_preview)
  IN /\ preview # ""
     /\ StrLen(m.content_preview) > MinPreviewLen
     /\ Cardinality(SigWords(m.content_preview) \cap SigWords(content)) >= MinOverlap

SuggestCategoryFromLearning(store, content) ==
  LET i == FirstIndex(store, LAMBDA m : EntryMatches(m, content))
  IN IF i = 0 THEN None ELSE store[i].new_category

(***************************************************************************)
(* ConceptExtractor._normalize_category                                    *)
(***************************************************************************)

InList(x, seq) == \E i \in DOMAIN seq : seq[i] = x

\* the static keyword step: the first contained keyword whose mapped category
\* equals a valid category ignoring case gives that valid category
StaticMatch(suggested, valid) ==
  LET targets == StaticTargets(suggested)
      ok(t) == \E i \in DOMAIN valid : Lower(valid[i]) = Lower(t)
      k == FirstIndex(targets, ok)
  IN IF k = 0 THEN None
     ELSE valid[FirstIndex(valid, LAMBDA v : Lower(v) = Lower(targets[k]))]

\* variants of _normalize_category that differ from the code in one step
MutNormalizeExactFirst(suggested, valid, store) ==
  IF InList(suggested, valid) THEN suggested
  ELSE IF suggested \in { None, "" } \/ Upper(suggested) = "UNCATEGORIZED" THEN None
  ELSE IF \E i \in DOMAIN valid : Lower(valid[i]) = Lower(suggested)
       THEN valid[FirstIndex(valid, LAMBDA v : Lower(v) = Lower(suggested))]
  ELSE IF StaticMatch(suggested, valid) # None THEN StaticMatch(suggested, valid)
  ELSE LET ls == SuggestCategoryFromLearning(store, suggested)
       IN IF ls # None /\ ls # "" /\ InList(ls, valid) THEN ls
          ELSE FallbackBucket(suggested)

MutNormalizeStaticFirst(suggested, valid, store) ==
  IF suggested \in { None, "" } \/ Upper(suggested) = "UNCATEGORIZED" THEN None
  ELSE IF StaticMatch(suggested, valid) # None THEN StaticMatch(suggested, valid)
  ELSE IF InList(suggested, valid) THEN suggested
  ELSE IF \E i \in DOMAIN valid : Lower(valid[i]) = Lower(suggested)
       THEN valid[FirstIndex(valid, LAMBDA v : Lower(v) = Lower(suggested))]
  ELSE LET ls == SuggestCategoryFromLearning(store, suggested)
       IN IF ls # None /\ ls # "" /\ InList(ls, valid) THEN ls
          ELSE FallbackBucket(suggested)

NormalizeCategory(suggested, valid, store) ==
  IF suggested \in { None, "" } \/ Upper(suggested) = "UNCATEGORIZED" THEN None
  ELSE IF InList(suggested, valid) THEN suggested
  ELSE IF \E i \in DOMAIN valid : Lower(valid[i]) = Lower(suggested)
       THEN valid[FirstIndex(valid, LAMBDA v : Lower(v) = Lower(suggested))]
  ELSE IF StaticMatch(suggested, valid) # None THEN StaticMatch(suggested, valid)
  ELSE LET ls == SuggestCategoryFromLearning(store, suggested)
       IN IF ls # None /\ ls # "" /\ InList(ls, valid) THEN ls
          ELSE FallbackBucket(suggested)


(***************************************************************************)
(* Concepts                                                                *)
(*                                                                         *)
(* A concept dict is a record of the fields the pipeline reads:            *)
(*   title, category, categoryPath (path, <<>> when the key is absent),    *)
(*   confidence_score (conf), relationships["algorithms"] (algorithms),    *)
(*   whether keyPoints is null (pointsNull), the number of codeSnippets    *)
(*   (snippets), relatedConcepts (related), keyPoints, whether the summary *)
(*   contains one of the problem-solving phrases (sumKw), the Quick Recall *)
(*   fields (recall: "absent", "model" or "default") and _is_technique.    *)
(***************************************************************************)

\* "problem" in concept["title"].lower()
TitleHasProblem(t) == t \in ProblemTitles

\* len(title.split()) <= 4 and any(word.istitle() for word in title.split())
TitleCaseShort(t) == t \in TitleCaseShortTitles

\* the technique a key point names in the if/elif chain, or None
PointTechnique(point) == Lookup(PointTechniquePairs, point, None)

Min(a, b) == IF a < b THEN a ELSE b

\* the permutations of a finite set, as sequences
Perms(S) ==
  { s \in [1..Cardinality(S) -> S] : \A i, j \in DOMAIN s : i # j => s[i] # s[j] }

\* ---- title-keyed deduplication ----------------------------------------

TitleIndex(acc, t) == FirstIndex(acc, LAMBDA c : c.title = t)

\* single-pass rule: a later concept replaces the kept one when its
\* confidence is strictly higher
SingleReplaces(new, old) == new.conf > old.conf

\* multi-pass rule: higher confidence, or equal confidence and more snippets
MultiReplaces(new, old) ==
  \/ new.conf > old.conf
  \/ new.conf = old.conf /\ new.snippets > old.snippets

\* rule names the path whose replacement test is applied
Replaces(rule, new, old) ==
  IF rule = "single" THEN SingleReplaces(new, old) ELSE MultiReplaces(new, old)

RECURSIVE DedupFrom(_, _, _, _)
DedupFrom(cs, i, acc, rule) ==
  IF i > Len(cs) THEN acc
  ELSE LET c == cs[i]
           k == TitleIndex(acc, c.title)
       IN DedupFrom(cs, i + 1,
                    IF k = 0 THEN Append(acc, c)
                    ELSE IF Replaces(rule, c, acc[k]) THEN [acc EXCEPT ![k] = c]
                    ELSE acc,
                    rule)

DedupSingle(cs) == DedupFrom(cs, 1, <<>>, "single")

DedupMulti(cs) == DedupFrom(cs, 1, <<>>, "multi")

\* ---- technique mini-concepts ------------------------------------------

ProblemCategories == { "problem-solving", "algorithm", "leetcode", "coding challenge" }

IsProblem(c) == TitleHasProblem(c.title) \/ Lower(c.category) \in ProblemCategories

\* the set "techniques" built from the key points of a problem concept
\* the technique a related algorithm names
AlgorithmTechnique(algo) ==
  IF Lower(algo) \in { "frequency count", "frequency counting" } THEN "Frequency Count"
  ELSE IF algo \in { "Iteration", "Loop" } THEN None
  ELSE algo

\* "Skip if too generic"
GenericTechniques == { "array", "list", "string", "integer", "iteration", "loop" }

TechniquesOf(c) ==
  IF IsProblem(c)
  THEN { t \in ( { PointTechnique(c.keyPoints[i]) : i \in DOMAIN c.keyPoints }
                 \cup { AlgorithmTechnique(c.algorithms[i]) : i \in DOMAIN c.algorithms } )
                \ { None } :
           Lower(t) \notin GenericTechniques }
  ELSE {}

DataStructureNames == { "hash table", "dictionary", "array", "set" }

\* the techniques _get_technique_info has a description of its own for
DescribedTechniques ==
  { "Hash Table", "Frequency Counting", "Frequency Count", "Two Pointer Technique",
    "Sliding Window" }

\* whether the description of a technique contains one of the
\* problem-solving phrases ("time complexity", "algorithm", "problem", ...);
\* the default description quotes the title of the problem
TechniqueSummaryKw(technique, title) ==
  IF technique \in DescribedTechniques
  THEN technique \in { "Hash Table", "Two Pointer Technique" }
  ELSE TitleHasProblem(title)

TechniqueConfidence == 70

TechConcept(technique, c) ==
  [ title |-> technique,
    category |-> IF Lower(technique) \in DataStructureNames
                 THEN "Data Structure" ELSE "Algorithm Technique",
    path |-> <<>>,
    conf |-> TechniqueConfidence,
    snippets |-> 0,
    related |-> << c.title >>,
    keyPoints |-> <<>>,
    algorithms |-> <<>>,
    pointsNull |-> FALSE,
    sumKw |-> TechniqueSummaryKw(technique, c.title),
    recall |-> "absent",
    tech |-> TRUE ]

\* "Only add if we don't already have this technique"
AlreadyHave(technique, toAdd, concepts) ==
  \E i \in DOMAIN toAdd : Lower(toAdd[i].title) = Lower(technique)

RECURSIVE AddTechniques(_, _, _, _, _)
AddTechniques(order, j, c, toAdd, concepts) ==
  IF j > Len(order) THEN toAdd
  ELSE AddTechniques(order, j + 1, c,
                     IF AlreadyHave(order[j], toAdd, concepts) THEN toAdd
                     ELSE Append(toAdd, TechConcept(order[j], c)),
                     concepts)

\* ord[i] is the order in which Python iterates the set of techniques of
\* concept i
RECURSIVE TechniquesToAdd(_, _, _, _)
TechniquesToAdd(concepts, ord, i, toAdd) ==
  IF i > Len(concepts) THEN toAdd
  ELSE TechniquesToAdd(concepts, ord, i + 1,
                       AddTechniques(ord[i], 1, concepts[i], toAdd, concepts))

TechOrders(concepts) ==
  { ord \in [DOMAIN concepts -> UNION { Perms(TechniquesOf(concepts[i])) : i \in DOMAIN concepts }] :
      \A i \in DOMAIN concepts : ord[i] \in Perms(TechniquesOf(concepts[i])) }

MaxTechniques == 3

MutEnrichNoLimit(concepts, ord) ==
  concepts \o TechniquesToAdd(concepts, ord, 1, <<>>)

Enrich(concepts, ord) ==
  LET toAdd == TechniquesToAdd(concepts, ord, 1, <<>>)
  IN concepts \o SubSeq(toAdd, 1, Min(MaxTechniques, Len(toAdd)))

\* ---- relatedConcepts ---------------------------------------------------

RECURSIVE RelatedDedupFrom(_, _, _)
RelatedDedupFrom(rel, i, acc) ==
  IF i > Len(rel) THEN acc
  ELSE RelatedDedupFrom(rel, i + 1,
         IF \E k \in DOMAIN acc : Lower(acc[k]) = Lower(rel[i]) THEN acc
         ELSE Append(acc, rel[i]))

RelatedDedup(rel) == RelatedDedupFrom(rel, 1, <<>>)

DedupAllRelated(concepts) ==
  [ i \in DOMAIN concepts |-> [concepts[i] EXCEPT !.related = RelatedDedup(@)] ]

\* ---- LeetCode re-categorization and back-links --------------------------

IsLikelyLeetcode(c) == TitleCaseShort(c.title) \/ c.sumKw

\* "if concept['title'] not in related_concept['relatedConcepts']"
MissingBackLink(rel, title) == ~InList(title, rel)

\* for related_concept in concepts: ... append the back-link
RECURSIVE BackLinkOver(_, _, _, _)
BackLinkOver(cs, i, relatedTitle, k) ==
  IF k > Len(cs) THEN cs
  ELSE BackLinkOver(
         IF /\ Lower(cs[k].title) = Lower(relatedTitle)
            /\ MissingBackLink(cs[k].related, cs[i].title)
         THEN [cs EXCEPT ![k].related = Append(@, cs[i].title)]
         ELSE cs,
         i, relatedTitle, k + 1)

\* for related_title in concept["relatedConcepts"]: the list is read again at
\* every step, as Python's list iterator does
RECURSIVE BackLinks(_, _, _)
BackLinks(cs, i, j) ==
  IF j > Len(cs[i].related) THEN cs
  ELSE BackLinks(BackLinkOver(cs, i, cs[i].related[j], 1), i, j + 1)

RECURSIVE LeetCodeFixFrom(_, _)
LeetCodeFixFrom(cs, i) ==
  IF i > Len(cs) THEN cs
  ELSE LeetCodeFixFrom(
         IF IsLikelyLeetcode(cs[i]) /\ cs[i].category # "LeetCode Problems"
         THEN BackLinks([cs EXCEPT ![i].category = "LeetCode Problems"], i, 1)
         ELSE cs,
         i + 1)

LeetCodeFix(cs) == LeetCodeFixFrom(cs, 1)

\* the whole post-processing of the single-pass path
SinglePassPost(concepts, ord) ==
  LeetCodeFix(DedupAllRelated(Enrich(DedupSingle(concepts), ord)))


(***************************************************************************)
(* ConceptExtractor._fallback_extraction                                   *)
(*                                                                         *)
(* A model output that is not JSON is a sequence of the text pieces below; *)
(* the text is their concatenation.                                        *)
(***************************************************************************)

TokTitle == "Title:"
TokNewline == "\n"
TokStop == ". "
TokKeyLong == "it is important to check every element of the array exactly once"
TokPlainLong == "we walked through the array from left to right two times over"
TokKeyShort == "key strategy"
TokMoney == "money"
TokName == "Two Sum"

TextTokens ==
  { TokTitle, TokNewline, TokStop, TokKeyLong, TokPlainLong, TokKeyShort, TokMoney, TokName }

\* pieces that str.strip() and the regex \s* remove
WhitespaceTokens == { TokNewline }

\* len() of each piece
TokLenPairs ==
  { <<TokTitle, 6>>, <<TokNewline, 1>>, <<TokStop, 2>>, <<TokKeyLong, 64>>,
    <<TokPlainLong, 61>>, <<TokKeyShort, 12>>, <<TokMoney, 5>>, <<TokName, 7>> }

\* pieces containing one of 'important', 'key', 'note', ..., 'principle'
InsightTokens == { TokKeyLong, TokKeyShort }

\* pieces containing a keyword of the fallback category chain
FinanceTokens == { TokMoney }
BusinessTokens == { TokKeyShort }

RECURSIVE SumLen(_)
SumLen(toks) ==
  IF toks = <<>> THEN 0 ELSE Lookup(TokLenPairs, Head(toks), 0) + SumLen(Tail(toks))

RECURSIVE LStrip(_)
LStrip(toks) ==
  IF toks # <<>> /\ Head(toks) \in WhitespaceTokens THEN LStrip(Tail(toks)) ELSE toks

RECURSIVE RStrip(_)
RStrip(toks) ==
  IF toks # <<>> /\ toks[Len(toks)] \in WhitespaceTokens
  THEN RStrip(SubSeq(toks, 1, Len(toks) - 1)) ELSE toks

\* str.strip()
Strip(toks) == RStrip(LStrip(toks))

\* the if/elif chain choosing fallback_category
FallbackCategory(text) ==
  IF \E i \in DOMAIN text : text[i] \in FinanceTokens THEN "Finance"
  ELSE IF \E i \in DOMAIN text : text[i] \in BusinessTokens THEN "Business"
  ELSE "General"

\* position of the first piece equal to tok at or after position i, Len+1 if none
RECURSIVE NextAt(_, _, _)
NextAt(text, tok, i) ==
  IF i > Len(text) THEN Len(text) + 1
  ELSE IF text[i] = tok THEN i ELSE NextAt(text, tok, i + 1)

\* group(1) of r"Title:\s*(.*?)(?=Title:|$)" for the marker at position i
MarkerGroup(text, i) ==
  LET rest == LStrip(SubSeq(text, i + 1, Len(text)))
  IN SubSeq(rest, 1, NextAt(rest, TokTitle, 1) - 1)

\* re.search(r"Title:\s*(.*?)(?:\n|$)", concept_text): the title, or None
TitleSearch(conceptText) ==
  LET p == NextAt(conceptText, TokTitle, 1)
  IN IF p > Len(conceptText) THEN None
     ELSE LET rest == LStrip(SubSeq(conceptText, p + 1, Len(conceptText)))
              line == SubSeq(rest, 1, NextAt(rest, TokNewline, 1) - 1)
          IN IF line = <<>> THEN "" ELSE line[1]

MarkerConfidence == 50
InsightConfidence == 30
MinInsightLen == 50

MutFallbackConceptHighConfidence(title, category, conf) ==
  [ title |-> title, category |-> category, path |-> << category >>,
    conf |-> conf + MarkerConfidence,
    snippets |-> 0, related |-> <<>>, keyPoints |-> <<>>, algorithms |-> <<>>,
    pointsNull |-> FALSE, sumKw |-> FALSE, recall |-> "absent", tech |-> FALSE ]

FallbackConcept(title, category, conf) ==
  [ title |-> title, category |-> category, path |-> << category >>, conf |-> conf,
    snippets |-> 0, related |-> <<>>, keyPoints |-> <<>>, algorithms |-> <<>>,
    pointsNull |-> FALSE, sumKw |-> FALSE, recall |-> "absent", tech |-> FALSE ]

RECURSIVE MarkerConcepts(_, _, _)
MarkerConcepts(text, i, acc) ==
  IF i > Len(text) THEN acc
  ELSE IF text[i] # TokTitle THEN MarkerConcepts(text, i + 1, acc)
  ELSE LET conceptText == Strip(MarkerGroup(text, i))
           title == IF conceptText = <<>> THEN None ELSE TitleSearch(conceptText)
       IN MarkerConcepts(text, i + 1,
            IF title = None THEN acc
            ELSE Append(acc, FallbackConcept(title, FallbackCategory(text), MarkerConfidence)))

\* text.split('. ')
RECURSIVE SplitStops(_, _, _)
SplitStops(text, i, acc) ==
  IF i > Len(text) THEN acc
  ELSE IF text[i] = TokStop THEN SplitStops(text, i + 1, Append(acc, <<>>))
  ELSE SplitStops(text, i + 1, [acc EXCEPT ![Len(acc)] = Append(@, text[i])])

IsInsight(sentence) ==
  LET s == Strip(sentence)
  IN SumLen(s) > MinInsightLen /\ \E i \in DOMAIN s : s[i] \in InsightTokens

HasInsights(text) ==
  LET sentences == SplitStops(text, 1, << <<>> >>)
  IN \E k \in DOMAIN sentences : IsInsight(sentences[k])

FallbackExtraction(text) ==
  LET marked == MarkerConcepts(text, 1, <<>>)
      concepts ==
        IF marked # <<>> THEN marked
        ELSE IF HasInsights(text)
             THEN << FallbackConcept("Key Insights", FallbackCategory(text), InsightConfidence) >>
             ELSE <<>>
  IN [ status |-> "ok", concepts |-> concepts, cd |-> FALSE,
       method |-> "enhanced_fallback", domain |-> FallbackCategory(text) ]

(***************************************************************************)
(* ConceptExtractor._segment_conversation                                  *)
(*                                                                         *)
(* A reply of the model client is a record: kind "throw" (the call raises),*)
(* "text" (not JSON), "bad" (JSON of another shape than the code reads) or *)
(* "json".  A segmentation reply of kind "json" carries conversation_type  *)
(* and the raw segments [topic, content, main_technique].                  *)
(***************************************************************************)

MaxSegments == 5

FullConversation(tag, text) ==
  << [ tag |-> tag, topic |-> "Full Conversation", technique |-> "", content |-> text ] >>

TaggedSegment(ctype, raw) ==
  [ tag |-> ctype, topic |-> raw.topic,
    technique |-> IF ctype = "PROBLEM_SOLVING" THEN raw.main_technique ELSE "",
    content |-> raw.content ]

RECURSIVE KeepNonEmpty(_, _, _, _)
KeepNonEmpty(ctype, raws, i, acc) ==
  IF i > Len(raws) THEN acc
  ELSE KeepNonEmpty(ctype, raws, i + 1,
         IF raws[i].content # "" THEN Append(acc, TaggedSegment(ctype, raws[i])) ELSE acc)

MutSegmentsNoUpperBound(reply, text) ==
  IF reply.kind # "json" THEN FullConversation("", text)
  ELSE LET segments == KeepNonEmpty(reply.ctype, reply.segments, 1, <<>>)
       IN IF segments = <<>> THEN FullConversation("UNKNOWN", text) ELSE segments

MutSegmentsRaiseOnFailure(reply, text) ==
  IF reply.kind # "json" THEN <<>>
  ELSE LET segments == KeepNonEmpty(reply.ctype, reply.segments, 1, <<>>)
       IN IF segments = <<>> \/ Len(segments) > MaxSegments
          THEN FullConversation("UNKNOWN", text) ELSE segments

SegmentConversation(reply, text) ==
  IF reply.kind # "json" THEN FullConversation("", text)
  ELSE LET segments == KeepNonEmpty(reply.ctype, reply.segments, 1, <<>>)
       IN IF segments = <<>> \/ Len(segments) > MaxSegments
          THEN FullConversation("UNKNOWN", text) ELSE segments


(***************************************************************************)
(* ConceptExtractor._detect_domain_type                                    *)
(***************************************************************************)

Throw == "<raise>"   \* a model-client call that raises

DomainTypes == { "TECHNICAL", "NON_TECHNICAL", "MIXED" }

\* <<technical_score, non_technical_score>> of a text
KeywordScores(text) == Lookup(KeywordScorePairs, text, <<0, 0>>)

\* content.strip().upper()
StripUpper(s) == Lookup(StripUpperPairs, s, s)

TechnicalDominant == 3
NonTechnicalDominant == 2
MixedScore == 2
MinorScore == 1

\* the keyword verdict, None when the scores are inconclusive
KeywordDomain(text) ==
  LET t == KeywordScores(text)[1]
      n == KeywordScores(text)[2]
  IN IF t >= TechnicalDominant /\ n <= MinorScore THEN "TECHNICAL"
     ELSE IF n >= NonTechnicalDominant /\ t <= MinorScore THEN "NON_TECHNICAL"
     ELSE IF t >= MixedScore /\ n >= MixedScore THEN "MIXED"
     ELSE None

MutDetectDomainRaises(text, reply) ==
  IF KeywordDomain(text) # None
  THEN [ domain |-> KeywordDomain(text), calls |-> 0 ]
  ELSE [ domain |-> IF reply = Throw THEN Throw
                    ELSE IF StripUpper(reply) \in DomainTypes THEN StripUpper(reply)
                    ELSE "TECHNICAL",
         calls |-> 1 ]

\* reply is the model's answer to the domain question, read only when the
\* keyword verdict is inconclusive
DetectDomainType(text, reply) ==
  IF KeywordDomain(text) # None
  THEN [ domain |-> KeywordDomain(text), calls |-> 0 ]
  ELSE [ domain |-> IF reply # Throw /\ StripUpper(reply) \in DomainTypes
                    THEN StripUpper(reply) ELSE "TECHNICAL",
         calls |-> 1 ]

(***************************************************************************)
(* ConceptExtractor._parse_structured_response                             *)
(*                                                                         *)
(* An extraction reply is [kind, text, concepts, cd]: text is the output   *)
(* when it is not JSON, concepts the elements of the "concepts" array and  *)
(* cd whether the summary mentions "contains duplicate" or "hash table".   *)
(* An element of the array is a raw concept: obj tells whether it is a     *)
(* JSON object and given which of the defaulted keys it has.               *)
(***************************************************************************)

DefaultConfidence == 80

\* [c.strip() for c in re.split(r'\s*>\s*', category)], [category] without ">"
SplitPath(category) == Lookup(SplitPathPairs, category, << category >>)

ParseConcept(raw) ==
  [ title |-> IF "title" \in raw.given THEN raw.title ELSE "Untitled Concept",
    category |-> IF "category" \in raw.given THEN raw.category ELSE "General",
    path |-> IF "categoryPath" \in raw.given THEN raw.path
             ELSE IF "category" \in raw.given THEN SplitPath(raw.category)
             ELSE << "General" >>,
    conf |-> IF "confidence_score" \in raw.given THEN raw.conf ELSE DefaultConfidence,
    snippets |-> raw.snippets,
    related |-> raw.related,
    keyPoints |-> raw.keyPoints,
    algorithms |-> raw.algorithms,
    pointsNull |-> raw.pointsNull,
    sumKw |-> raw.sumKw,
    recall |-> "absent",
    tech |-> FALSE ]

ParseError ==
  [ status |-> "error", concepts |-> <<>>, cd |-> FALSE, method |-> "", domain |-> "" ]

ParseStructuredResponse(reply) ==
  IF reply.kind = "text" THEN FallbackExtraction(reply.text)
  ELSE IF reply.kind # "json" THEN ParseError
  ELSE IF \E i \in DOMAIN reply.concepts : ~reply.concepts[i].obj THEN ParseError
  ELSE [ status |-> "ok",
         concepts |-> [ i \in DOMAIN reply.concepts |-> ParseConcept(reply.concepts[i]) ],
         cd |-> reply.cd, method |-> "structured", domain |-> "" ]

(***************************************************************************)
(* ConceptExtractor._analyze_segment and _analyze_non_technical_segment    *)
(***************************************************************************)

\* the category the title and summary keywords give a non-technical concept
ContentCategory(c) == Lookup(ContentCategoryPairs, c.title, "General")

AssignContentCategories(concepts) ==
  [ i \in DOMAIN concepts |->
      IF concepts[i].category \in { "", "Uncategorized", "General" }
      THEN [ concepts[i] EXCEPT !.category = ContentCategory(concepts[i]),
                                !.path = << ContentCategory(concepts[i]) >> ]
      ELSE concepts[i] ]

\* valids[i] is the list _fetch_categories returns for concept i
NormalizeOne(c, valid, store) ==
  LET n == IF c.category = "" THEN None ELSE NormalizeCategory(c.category, valid, store)
  IN IF n # None /\ n # c.category
     THEN [ c EXCEPT !.category = n, !.path = IF c.path = <<>> THEN << n >> ELSE c.path ]
     ELSE c

NormalizeAll(concepts, valids, store) ==
  [ i \in DOMAIN concepts |-> NormalizeOne(concepts[i], valids[i], store) ]

\* the normalizations NormalizeAll performs, for the record of the request
RECURSIVE NormLog(_, _, _, _, _)
NormLog(concepts, valids, store, persisted, i) ==
  IF i > Len(concepts) THEN <<>>
  ELSE ( IF concepts[i].category = "" THEN <<>>
         ELSE << [ suggested |-> concepts[i].category,
                   valid |-> valids[i],
                   result |-> NormalizeCategory(concepts[i].category, valids[i], store),
                   recorded |-> persisted ] >> )
       \o NormLog(concepts, valids, store, persisted, i + 1)

AnalyzeWith(d, parsed, failed, valids, store, persisted) ==
  IF failed \/ parsed.status = "error"
  THEN [ status |-> "error", concepts |-> <<>>, cd |-> FALSE,
         calls |-> d.calls + 1, domain |-> d.domain, norm |-> <<>> ]
  ELSE [ status |-> "ok",
         concepts |-> IF d.domain = "NON_TECHNICAL" THEN AssignContentCategories(parsed.concepts)
                      ELSE IF d.domain = "MIXED" THEN NormalizeAll(parsed.concepts, valids, store)
                      ELSE parsed.concepts,
         cd |-> parsed.cd,
         calls |-> d.calls + 1, domain |-> d.domain,
         norm |-> IF d.domain = "MIXED"
                  THEN NormLog(parsed.concepts, valids, store, persisted, 1) ELSE <<>> ]

\* store is category_learning.learned_mappings of the serving extractor;
\* persisted, the learned-mapping document, is only recorded in norm
AnalyzeSegment(text, domainReply, reply, valids, store, persisted) ==
  AnalyzeWith(DetectDomainType(text, domainReply), ParseStructuredResponse(reply),
              reply.kind = "throw", valids, store, persisted)

(***************************************************************************)
(* standardize_response_format and the canned simple fallback              *)
(***************************************************************************)

NoResult == [ concepts |-> <<>>, method |-> "none", segments |-> 0 ]

StandardizeConcept(c) ==
  [ c EXCEPT !.recall = IF c.recall = "absent" THEN "default" ELSE c.recall ]

Standardize(result) ==
  [ result EXCEPT !.concepts = [ i \in DOMAIN result.concepts |->
                                   StandardizeConcept(result.concepts[i]) ] ]

SimpleFallbackConfidenceProblem == 95
SimpleFallbackConfidenceTechnique == 90

SimpleFallbackConcepts ==
  << [ title |-> "Contains Duplicate", category |-> "LeetCode Problems",
       path |-> << "LeetCode Problems" >>,
       conf |-> SimpleFallbackConfidenceProblem, snippets |-> 1,
       related |-> << "Hash Table" >>, keyPoints |-> <<>>, algorithms |-> <<>>,
       pointsNull |-> FALSE, sumKw |-> TRUE,
       recall |-> "absent", tech |-> FALSE ],
     [ title |-> "Hash Table", category |-> "Data Structure",
       path |-> << "Data Structure" >>,
       conf |-> SimpleFallbackConfidenceTechnique, snippets |-> 1,
       related |-> << "Contains Duplicate" >>, keyPoints |-> <<>>, algorithms |-> <<>>,
       pointsNull |-> FALSE, sumKw |-> FALSE,
       recall |-> "absent", tech |-> FALSE ] >>

(***************************************************************************)
(* Inputs                                                                  *)
(***************************************************************************)

Procs == { "p1", "p2" }   \* requests the event loop has in flight at once

MaxRequests == 3      \* /extract-concepts requests accepted in a run
MaxCorrections == 1   \* entries of the learned-mapping document
MaxTextLen == 4       \* pieces of a model output that is not JSON
MaxRawSegments == 6   \* raw segments of a segmentation reply
MaxConcepts == 3      \* concepts handed to a post-processing run

TextMixed == "how do I split my budget and savings between a react app and an api server"
TextVague == "what did we decide about the two sum question yesterday"
ConversationTexts == { TextMixed, TextVague }

DomainReplies == { "TECHNICAL", "non_technical\n", "MIXED", "It is technical.", Throw }

RemoteCategories == << "Gardening", "Finance", "General" >>
CategoryLists == { DefaultCategories, RemoteCategories }

AllGiven == { "title", "category", "confidence_score" }

RawTwoSum ==
  [ obj |-> TRUE, given |-> AllGiven,
    path |-> <<>>, algorithms |-> <<>>, pointsNull |-> FALSE,
    title |-> "Two Sum Problem", category |-> "Algorithms",
    conf |-> 90, snippets |-> 1, related |-> << "Hash Table", "hash table" >>,
    keyPoints |-> << "use a hash map" >>, sumKw |-> TRUE ]

RawTwoSumCode ==
  [ RawTwoSum EXCEPT !.snippets = 2, !.related = <<>>,
                     !.keyPoints = << "use a hash map", "count the frequency of each value",
                                      "move the left pointer", "shrink the window" >> ]

RawHash ==
  [ obj |-> TRUE, given |-> AllGiven,
    path |-> <<>>, algorithms |-> <<>>, pointsNull |-> FALSE,
    title |-> "Hash Table", category |-> "Data Structures",
    conf |-> 80, snippets |-> 0, related |-> << "two sum problem" >>,
    keyPoints |-> <<>>, sumKw |-> FALSE ]

RawCompost ==
  [ obj |-> TRUE, given |-> { "title", "category" },
    path |-> <<>>, algorithms |-> <<>>, pointsNull |-> FALSE,
    title |-> "hash table",
    category |-> "compost rotation tips",
    conf |-> 0, snippets |-> 0, related |-> <<>>, keyPoints |-> <<>>, sumKw |-> FALSE ]

RawBudget ==
  [ obj |-> TRUE, given |-> AllGiven,
    path |-> <<>>, algorithms |-> <<>>, pointsNull |-> FALSE,
    title |-> "Budgeting Basics", category |-> "General",
    conf |-> 60, snippets |-> 0, related |-> <<>>, keyPoints |-> <<>>, sumKw |-> FALSE ]

\* a concept whose category is a ">" path and that has no categoryPath
RawApiDesign ==
  [ obj |-> TRUE, given |-> AllGiven,
    path |-> <<>>, algorithms |-> <<>>, pointsNull |-> FALSE,
    title |-> "Hash Table",
    category |-> "Backend Engineering > API Design",
    conf |-> 85, snippets |-> 0, related |-> <<>>, keyPoints |-> <<>>, sumKw |-> FALSE ]

\* a problem by its category, with a technique named among its algorithms
RawLeetTwoSum ==
  [ obj |-> TRUE, given |-> AllGiven,
    path |-> <<>>, algorithms |-> << "memoization" >>, pointsNull |-> FALSE,
    title |-> "two sum", category |-> "LeetCode",
    conf |-> 75, snippets |-> 0, related |-> <<>>, keyPoints |-> <<>>, sumKw |-> FALSE ]

\* a concept whose keyPoints is null
RawNullPoints == [ RawBudget EXCEPT !.pointsNull = TRUE ]

RawPool ==
  { RawTwoSum, RawTwoSumCode, RawHash, RawCompost, RawBudget, RawApiDesign, RawLeetTwoSum }

SeqsUpTo(S, n) == UNION { [1..k -> S] : k \in 0..n }

JsonReply(concepts, cd) ==
  [ kind |-> "json", text |-> <<>>, concepts |-> concepts, cd |-> cd ]

ThrowReply == [ kind |-> "throw", text |-> <<>>, concepts |-> <<>>, cd |-> FALSE ]
BadReply == [ kind |-> "bad", text |-> <<>>, concepts |-> <<>>, cd |-> FALSE ]
TextReply(text) == [ kind |-> "text", text |-> text, concepts |-> <<>>, cd |-> FALSE ]

\* the extraction replies the pipeline is driven with
ExtractionReplies ==
  { ThrowReply, BadReply, TextReply(<< TokTitle, TokName >>),
    JsonReply(<<>>, FALSE), JsonReply(<<>>, TRUE), JsonReply(<< RawCompost >>, FALSE) }

\* and with a concept the endpoint's report raises on
ReportedReplies == ExtractionReplies \cup { JsonReply(<< RawNullPoints >>, FALSE) }

RawSegment(content, technique) ==
  [ topic |-> "Two Sum", content |-> content, main_technique |-> technique ]

RawSegments ==
  { RawSegment("", ""), RawSegment("the lookup part", ""),
    RawSegment("the lookup part", "Hash Table") }

ConversationTypes == { "PROBLEM_SOLVING", "EXPLORATORY_LEARNING", "UNKNOWN" }

SegmentationReply(kind, ctype, segments) ==
  [ kind |-> kind, ctype |-> ctype, segments |-> segments ]

FailedSegmentations ==
  { SegmentationReply(k, "UNKNOWN", <<>>) : k \in { "throw", "text", "bad" } }

\* every segmentation reply with at most MaxRawSegments raw segments
SegmentationReplies ==
  FailedSegmentations \cup
  { SegmentationReply("json", t, s) :
      t \in ConversationTypes, s \in SeqsUpTo(RawSegments, MaxRawSegments) }

\* the segmentation replies the pipeline is driven with
PipelineSegmentations ==
  FailedSegmentations \cup
  { SegmentationReply("json", "EXPLORATORY_LEARNING",
                      << RawSegment("", ""),
                         RawSegment("python function over an array", "Hash Table"),
                         RawSegment("the budget and savings part", "") >>) }

Snippets ==
  { "garden compost rotation schedule",
    "weekly planning notes and general reminders about household chores, errands, meals plus some shopping; compost rotation" }

OldCategories == { "General" }
NewCategories == { "Lifestyle" }

(***************************************************************************)
(* The service: ConceptExtractor.analyze_conversation behind the           *)
(* /api/v1/extract-concepts endpoint, the /api/v1/manual-category-update   *)
(* endpoint and a process restart.  An action is the code between two      *)
(* suspension points of a request.                                         *)
(***************************************************************************)

\* the fields of a ConversationRequest besides the text: whether a context
\* and a category guidance are given, and the custom API key ("none" for the
\* server's key, "valid", or "invalid" for one the model provider rejects)
DefaultOptions ==
  [ context |-> "none", category_guidance |-> "none", custom_api_key |-> "none" ]

RequestOptions ==
  { DefaultOptions,
    [ context |-> "given", category_guidance |-> "given", custom_api_key |-> "valid" ],
    [ context |-> "none", category_guidance |-> "given", custom_api_key |-> "invalid" ] }

IdleReq ==
  [ pc |-> "idle", text |-> "", opts |-> DefaultOptions, segs |-> <<>>, segKind |-> "",
    idx |-> 0, acc |-> <<>>,
    calls |-> 0, hit |-> FALSE, raised |-> FALSE, out |-> "none", res |-> NoResult,
    norm |-> <<>>, prior |-> NoResult, extracted |-> <<>> ]

IdleRun == [ done |-> FALSE ]

\* hashlib.md5(text.encode()).hexdigest(): distinct texts are taken to have
\* distinct digests
GenerateCacheKey(text) == text

\* self.cache.get(cache_key): NoResult stands for None
GetCachedResponse(c, key) == c[key]

Init ==
  /\ cache = [ k \in ConversationTexts |-> NoResult ]
  /\ learned = <<>>
  /\ file = <<>>
  /\ corrections = <<>>
  /\ req = [ p \in Procs |-> IdleReq ]
  /\ started = 0
  /\ returned = [ x \in ConversationTexts |-> NoResult ]
  /\ fb = IdleRun
  /\ sg = IdleRun
  /\ pp = IdleRun
  /\ nz = IdleRun
  /\ an = IdleRun

\* the answers to the domain question that can matter for a text: one is
\* read only when the keyword verdict is inconclusive
DomainChoices(text) ==
  IF KeywordDomain(text) = None THEN DomainReplies ELSE { Throw }

\* the replies a request can get from the client _get_client gives it: every
\* call with a custom API key the provider rejects throws
Rejected(r) == r.opts.custom_api_key = "invalid"

DomainChoicesOf(r, text) == IF Rejected(r) THEN { Throw } ELSE DomainChoices(text)

ExtractionRepliesOf(r, replies) == IF Rejected(r) THEN { ThrowReply } ELSE replies

SegmentationsOf(r) ==
  IF Rejected(r) THEN { SegmentationReply("throw", "UNKNOWN", <<>>) }
  ELSE PipelineSegmentations

\* the outcomes of the _fetch_categories calls of one analysis, one for each
\* parsed concept; they are made only for MIXED content
FetchChoices(text, d, reply) ==
  LET n == Len(ParseStructuredResponse(reply).concepts)
  IN IF DetectDomainType(text, d).domain = "MIXED"
     THEN [ 1..n -> CategoryLists ]
     ELSE [ 1..n -> { DefaultCategories } ]

\* "for point in concept.get('keyPoints', [])" raises on a null keyPoints
PointsRaise(concepts) ==
  \E i \in DOMAIN concepts : IsProblem(concepts[i]) /\ concepts[i].pointsNull

\* the endpoint's report on the result: len(concept.get('keyPoints', []))
\* raises on a null keyPoints
LogRaises(result) ==
  \E i \in DOMAIN result.concepts : result.concepts[i].pointsNull

\* analyze_conversation stores the result and returns it; the endpoint
\* returns standardize_response_format(result), which rewrites in place the
\* concepts list the cache entry holds, after reporting on it; an exception
\* of the report ends the request with HTTP 500
Respond(p, r, result, calls, log) ==
  LET std == Standardize(result)
      failed == LogRaises(std)
  IN /\ req' = [ req EXCEPT ![p] = [ IdleReq EXCEPT !.pc = "done", !.text = r.text,
                                                     !.opts = r.opts,
                                                     !.prior = r.prior,
                                                     !.out = IF failed THEN "http500" ELSE "ok",
                                                     !.raised = failed,
                                                     !.segKind = r.segKind,
                                                     !.res = IF failed THEN NoResult ELSE std,
                                                     !.calls = calls,
                                                     !.norm = log ] ]
     /\ cache' = [ cache EXCEPT ![GenerateCacheKey(r.text)] = std ]
     /\ returned' = IF failed THEN returned
                    ELSE [ returned EXCEPT ![r.text] = IF @ = NoResult THEN std ELSE @ ]

\* except Exception: raise HTTPException(status_code=500), twice
Fail(p, r, calls, log) ==
  /\ req' = [ req EXCEPT ![p] = [ IdleReq EXCEPT !.pc = "done", !.text = r.text,
                                                  !.opts = r.opts,
                                                  !.prior = r.prior, !.raised = TRUE,
                                                  !.segKind = r.segKind,
                                                  !.out = "http500",
                                                  !.calls = calls, !.norm = log ] ]
  /\ UNCHANGED << cache, returned >>

\* a request with text x and the other fields o arrives at a worker that has
\* none in flight: the cache lookup
StartWith(p, x, o) ==
  /\ req[p].pc \in { "idle", "done" }
  /\ started < MaxRequests
  /\ started' = started + 1
  /\ LET cached == GetCachedResponse(cache, GenerateCacheKey(x))
         r == [ IdleReq EXCEPT !.text = x, !.opts = o, !.prior = returned[x] ]
     IN IF cached # NoResult
        THEN /\ req' = [ req EXCEPT ![p] =
                         IF LogRaises(Standardize(cached))
                         THEN [ r EXCEPT !.pc = "done", !.hit = TRUE, !.out = "http500",
                                         !.raised = TRUE ]
                         ELSE [ r EXCEPT !.pc = "done", !.hit = TRUE, !.out = "ok",
                                         !.res = Standardize(cached) ] ]
             /\ UNCHANGED returned
        ELSE /\ req' = [ req EXCEPT ![p] = [ r EXCEPT !.pc = "single" ] ]
             /\ UNCHANGED returned
  /\ UNCHANGED << cache, learned, file, corrections, fb, sg, pp, nz, an >>

\* a request without context, category guidance or custom API key
Start(p, x) == StartWith(p, x, DefaultOptions)

\* the single pass over the whole text and what follows it without
\* suspension; replies are the outputs the model can give to the extraction
\* prompt
AnalyzeSingleOn(p, replies) ==
  /\ req[p].pc = "single"
  /\ \E d \in DomainChoicesOf(req[p], req[p].text),
        reply \in ExtractionRepliesOf(req[p], replies) :
       \E valids \in FetchChoices(req[p].text, d, reply) :
         \E a \in { AnalyzeSegment(req[p].text, d, reply, valids, learned, file) } :
           LET r == req[p]
           IN IF a.status = "error" THEN Fail(p, r, a.calls, a.norm)
              ELSE IF a.concepts # <<>> /\ PointsRaise(DedupSingle(a.concepts))
              THEN Fail(p, r, a.calls, a.norm)
              ELSE IF a.concepts # <<>>
              THEN \E ord \in TechOrders(DedupSingle(a.concepts)) :
                     Respond(p, r, [ concepts |-> SinglePassPost(a.concepts, ord),
                                     method |-> "single_pass", segments |-> 0 ],
                             a.calls, a.norm)
              ELSE IF a.cd
              THEN Respond(p, r, [ concepts |-> SimpleFallbackConcepts,
                                   method |-> "simple_fallback", segments |-> 0 ],
                           a.calls, a.norm)
              ELSE /\ req' = [ req EXCEPT ![p] = [ r EXCEPT !.pc = "segment", !.calls = a.calls,
                                                            !.extracted = << r.text >> ] ]
                   /\ UNCHANGED << cache, returned >>
  /\ UNCHANGED << learned, file, corrections, started, fb, sg, pp, nz, an >>

AnalyzeSingle(p) == AnalyzeSingleOn(p, ExtractionReplies)

MutSegmentSkipsFirst(p) ==
  /\ req[p].pc = "segment"
  /\ \E s \in SegmentationsOf(req[p]) :
       LET r == req[p]
       IN req' = [ req EXCEPT ![p] = [ r EXCEPT !.pc = "multi",
                                                !.segs = SegmentConversation(s, r.text),
                                                !.segKind = s.kind,
                                                !.idx = 2,
                                                !.calls = r.calls + 1 ] ]
  /\ UNCHANGED << cache, learned, file, corrections, started, returned, fb, sg, pp, nz, an >>

\* the multi-pass fallback: the segmentation call
Segment(p) ==
  /\ req[p].pc = "segment"
  /\ \E s \in SegmentationsOf(req[p]) :
       LET r == req[p]
       IN req' = [ req EXCEPT ![p] = [ r EXCEPT !.pc = "multi",
                                                !.segs = SegmentConversation(s, r.text),
                                                !.segKind = s.kind,
                                                !.idx = 1,
                                                !.calls = r.calls + 1 ] ]
  /\ UNCHANGED << cache, learned, file, corrections, started, returned, fb, sg, pp, nz, an >>

\* the analysis of the next segment; after the last one the deduplication,
\* the cache store and the response follow without suspension
AnalyzeNextOn(p, replies) ==
  /\ req[p].pc = "multi"
  /\ req[p].idx <= Len(req[p].segs)
  /\ \E d \in DomainChoicesOf(req[p], req[p].segs[req[p].idx].content),
        reply \in ExtractionRepliesOf(req[p], replies) :
       \E valids \in FetchChoices(req[p].segs[req[p].idx].content, d, reply) :
         \E a \in { AnalyzeSegment(req[p].segs[req[p].idx].content, d, reply, valids,
                                    learned, file) } :
           LET r == req[p]
               all == r.acc \o a.concepts
           IN IF a.status = "error" THEN Fail(p, r, r.calls + a.calls, r.norm \o a.norm)
              ELSE IF r.idx < Len(r.segs)
              THEN /\ req' = [ req EXCEPT ![p] = [ r EXCEPT !.idx = r.idx + 1, !.acc = all,
                                                            !.calls = r.calls + a.calls,
                                                            !.norm = r.norm \o a.norm,
                                                            !.extracted =
                                                              Append(r.extracted,
                                                                     r.segs[r.idx].content) ] ]
                   /\ UNCHANGED << cache, returned >>
              ELSE Respond(p, r, [ concepts |-> DedupMulti(all), method |-> "multi_pass",
                                   segments |-> Len(r.segs) ],
                           r.calls + a.calls, r.norm \o a.norm)
  /\ UNCHANGED << learned, file, corrections, started, fb, sg, pp, nz, an >>

AnalyzeNext(p) == AnalyzeNextOn(p, ExtractionReplies)

\* record_manual_category_update: a new ConceptExtractor loads the document,
\* records the entry in its own mapping and saves it.  The handler has no
\* await, so the event loop runs it from the load to the save as one step.
\* limit bounds the number of updates of a run.
RecordUpTo(limit, snippet, old, new) ==
  /\ Len(corrections) < limit
  /\ LET loaded == file
     IN file' = RecordManualUpdate(loaded, snippet, old, new)
  /\ corrections' = Append(corrections, [ snippet |-> snippet, old |-> old, new |-> new ])
  /\ UNCHANGED << cache, learned, req, started, returned, fb, sg, pp, nz, an >>

RecordCorrection(snippet, old, new) == RecordUpTo(MaxCorrections, snippet, old, new)

\* the process is started again: concept_extractor = ConceptExtractor()
Restart ==
  /\ cache' = [ k \in ConversationTexts |-> NoResult ]
  /\ learned' = file
  /\ req' = [ p \in Procs |-> IdleReq ]
  /\ returned' = [ x \in ConversationTexts |-> NoResult ]
  /\ UNCHANGED << file, corrections, started, fb, sg, pp, nz, an >>

Next ==
  \/ \E p \in Procs, x \in ConversationTexts : Start(p, x)
  \/ \E p \in Procs : AnalyzeSingle(p)
  \/ \E p \in Procs : Segment(p)
  \/ \E p \in Procs : AnalyzeNext(p)
  \/ \E s \in Snippets, o \in OldCategories, n \in NewCategories : RecordCorrection(s, o, n)
  \/ Restart

Spec == Init /\ [][Next]_vars

(***************************************************************************)
(* Runs of single functions on every input within the bounds               *)
(***************************************************************************)

Quiet ==
  /\ cache = [ k \in ConversationTexts |-> NoResult ]
  /\ learned = <<>>
  /\ file = <<>>
  /\ corrections = <<>>
  /\ req = [ p \in Procs |-> IdleReq ]
  /\ started = 0
  /\ returned = [ x \in ConversationTexts |-> NoResult ]

InitFallback ==
  /\ Quiet /\ sg = IdleRun /\ pp = IdleRun /\ nz = IdleRun /\ an = IdleRun
  /\ fb \in { [ done |-> FALSE, text |-> t, out |-> ParseError ] :
                t \in SeqsUpTo(TextTokens, MaxTextLen) }

RunFallback ==
  /\ ~fb.done
  /\ fb' = [ fb EXCEPT !.done = TRUE, !.out = FallbackExtraction(fb.text) ]
  /\ UNCHANGED << cache, learned, file, corrections, req, started, returned, sg, pp, nz, an >>

NextFallback == RunFallback

SpecFallback == InitFallback /\ [][NextFallback]_vars

InitSegment ==
  /\ Quiet /\ fb = IdleRun /\ pp = IdleRun /\ nz = IdleRun /\ an = IdleRun
  /\ sg \in { [ done |-> FALSE, text |-> x, reply |-> s, out |-> <<>> ] :
                x \in { TextVague }, s \in SegmentationReplies }

RunSegment ==
  /\ ~sg.done
  /\ sg' = [ sg EXCEPT !.done = TRUE, !.out = SegmentConversation(sg.reply, sg.text) ]
  /\ UNCHANGED << cache, learned, file, corrections, req, started, returned, fb, pp, nz, an >>

NextSegment == RunSegment

SpecSegment == InitSegment /\ [][NextSegment]_vars

ParsedPool == { ParseConcept(raw) : raw \in RawPool }

InitPost ==
  /\ Quiet /\ fb = IdleRun /\ sg = IdleRun /\ nz = IdleRun /\ an = IdleRun
  /\ pp \in { [ done |-> FALSE, path |-> path, input |-> cs, out |-> <<>> ] :
                path \in { "single", "multi" }, cs \in SeqsUpTo(ParsedPool, MaxConcepts) }

\* the post-processing of the single-pass path
RunSinglePost ==
  /\ ~pp.done /\ pp.path = "single"
  /\ \E ord \in TechOrders(DedupSingle(pp.input)) :
       pp' = [ pp EXCEPT !.done = TRUE, !.out = SinglePassPost(pp.input, ord) ]
  /\ UNCHANGED << cache, learned, file, corrections, req, started, returned, fb, sg, nz, an >>

\* the deduplication of the multi-pass path
RunMultiPost ==
  /\ ~pp.done /\ pp.path = "multi"
  /\ pp' = [ pp EXCEPT !.done = TRUE, !.out = DedupMulti(pp.input) ]
  /\ UNCHANGED << cache, learned, file, corrections, req, started, returned, fb, sg, nz, an >>

NextPost == RunSinglePost \/ RunMultiPost

SpecPost == InitPost /\ [][NextPost]_vars

\* _normalize_category on every suggestion, category list and learned mapping
\* of the sets below; again is the result of normalizing the result

CaseVariantCategories == << "general", "Uncategorized", "Lifestyle" >>

NormalizeLists == { DefaultCategories, RemoteCategories, CaseVariantCategories }

NormalizeInputs ==
  { "", "UNCATEGORIZED", "uncategorized", "finance", "React hooks", "compost rotation tips",
    "mental models", "Data Structure" }
  \cup UNION { { valid[i] : i \in DOMAIN valid } : valid \in NormalizeLists }

LearnedStores ==
  { <<>> } \cup
  { RecordManualUpdate(<<>>, s, o, n) :
      s \in Snippets, o \in OldCategories, n \in NewCategories \cup { "Uncategorized" } }

InitNormalize ==
  /\ Quiet /\ fb = IdleRun /\ sg = IdleRun /\ pp = IdleRun /\ an = IdleRun
  /\ nz \in { [ done |-> FALSE, suggested |-> s, valid |-> v, store |-> l,
                 out |-> None, again |-> None ] :
                s \in NormalizeInputs, v \in NormalizeLists, l \in LearnedStores }

RunNormalize ==
  /\ ~nz.done
  /\ \E c \in { NormalizeCategory(nz.suggested, nz.valid, nz.store) } :
       nz' = [ nz EXCEPT !.done = TRUE, !.out = c,
                         !.again = NormalizeCategory(c, nz.valid, nz.store) ]
  /\ UNCHANGED << cache, learned, file, corrections, req, started, returned, fb, sg, pp, an >>

NextNormalize == RunNormalize

SpecNormalize == InitNormalize /\ [][NextNormalize]_vars

\* _analyze_segment on one segment, in the steps the per-segment state
\* machine names: the prompt is sent, the reply is received and parsed, the
\* parsed concepts are post-processed or the fallback extraction recovers a
\* reply that is not JSON, and the segment result is returned.  RAISED is
\* an exception leaving _analyze_segment.

MaxRawConcepts == 2   \* elements of the "concepts" array of a reply

AnalyzeTexts == { TextMixed, TextVague, "the budget and savings part" }

RawNoTitle ==
  [ obj |-> TRUE, given |-> { "category", "confidence_score" },
    path |-> <<>>, algorithms |-> <<>>, pointsNull |-> FALSE,
    title |-> Absent,
    category |-> "Algorithms", conf |-> 70, snippets |-> 0, related |-> <<>>,
    keyPoints |-> <<>>, sumKw |-> FALSE ]

\* an element of the array that is a JSON string, not an object
RawString ==
  [ obj |-> FALSE, given |-> {},
    path |-> <<>>, algorithms |-> <<>>, pointsNull |-> FALSE,
    title |-> Absent, category |-> "", conf |-> 0,
    snippets |-> 0, related |-> <<>>, keyPoints |-> <<>>, sumKw |-> FALSE ]

\* a concept whose confidence_score is 1.5
RawOverConfident ==
  [ obj |-> TRUE, given |-> AllGiven,
    path |-> <<>>, algorithms |-> <<>>, pointsNull |-> FALSE,
    title |-> "Budgeting Basics",
    category |-> "Finance", conf |-> 150, snippets |-> 0, related |-> <<>>,
    keyPoints |-> <<>>, sumKw |-> FALSE ]

AnalyzePool == { RawTwoSum, RawCompost, RawNoTitle, RawString, RawOverConfident }

AnalyzeReplies ==
  { ThrowReply, BadReply, TextReply(<< TokTitle, TokName >>), TextReply(<< TokKeyLong >>) }
  \cup { JsonReply(cs, FALSE) : cs \in SeqsUpTo(AnalyzePool, MaxRawConcepts) }

NoAnalysis ==
  [ status |-> "none", concepts |-> <<>>, cd |-> FALSE, calls |-> 0, domain |-> "",
    norm |-> <<>> ]

AnalyzeRuns ==
  UNION { UNION { UNION { { [ phase |-> "PENDING", text |-> t, domainReply |-> d,
                              reply |-> r, valids |-> v, out |-> NoAnalysis ] :
                            v \in FetchChoices(t, d, r) } :
                          r \in AnalyzeReplies } :
                  d \in DomainChoices(t) } :
          t \in AnalyzeTexts }

InitAnalyze ==
  /\ Quiet /\ fb = IdleRun /\ sg = IdleRun /\ pp = IdleRun /\ nz = IdleRun
  /\ an \in AnalyzeRuns

AnalysisOf(a) == AnalyzeSegment(a.text, a.domainReply, a.reply, a.valids, <<>>, <<>>)

\* domain detection, the prompt and the request to the model client
PromptSegment ==
  /\ an.phase = "PENDING"
  /\ an' = [ an EXCEPT !.phase = "PROMPTED" ]
  /\ UNCHANGED << cache, learned, file, corrections, req, started, returned, fb, sg, pp, nz >>

\* the await of the model call and json.loads in _parse_structured_response
ReceiveReply ==
  /\ an.phase = "PROMPTED"
  /\ an' = IF an.reply.kind = "throw" \/ ParseStructuredResponse(an.reply).status = "error"
            THEN [ an EXCEPT !.phase = "RAISED", !.out = AnalysisOf(an) ]
            ELSE IF an.reply.kind = "text"
            THEN [ an EXCEPT !.phase = "PARSE_FAILED" ]
            ELSE [ an EXCEPT !.phase = "PARSED" ]
  /\ UNCHANGED << cache, learned, file, corrections, req, started, returned, fb, sg, pp, nz >>

\* the per-concept processing and the post-processing for the domain
NormalizeParsed ==
  /\ an.phase = "PARSED"
  /\ an' = [ an EXCEPT !.phase = "NORMALIZED" ]
  /\ UNCHANGED << cache, learned, file, corrections, req, started, returned, fb, sg, pp, nz >>

\* except json.JSONDecodeError: return self._fallback_extraction(response_text)
RecoverByFallback ==
  /\ an.phase = "PARSE_FAILED"
  /\ an' = [ an EXCEPT !.phase = "FALLBACK_RECOVERED" ]
  /\ UNCHANGED << cache, learned, file, corrections, req, started, returned, fb, sg, pp, nz >>

\* return parsed_result
FinishSegment ==
  /\ an.phase \in { "NORMALIZED", "FALLBACK_RECOVERED" }
  /\ an' = [ an EXCEPT !.phase = "DONE", !.out = AnalysisOf(an) ]
  /\ UNCHANGED << cache, learned, file, corrections, req, started, returned, fb, sg, pp, nz >>

NextAnalyze ==
  \/ PromptSegment
  \/ ReceiveReply
  \/ NormalizeParsed
  \/ RecoverByFallback
  \/ FinishSegment

SpecAnalyze == InitAnalyze /\ [][NextAnalyze]_vars

\* extraction requests for one text alone, with every choice of the fields
\* besides the text, and with the replies the endpoint's report raises on

NextOptions ==
  \/ \E p \in Procs, x \in { TextMixed }, o \in RequestOptions : StartWith(p, x, o)
  \/ \E p \in Procs : AnalyzeSingleOn(p, ReportedReplies)
  \/ \E p \in Procs : Segment(p)
  \/ \E p \in Procs : AnalyzeNextOn(p, ReportedReplies)

SpecOptions == Init /\ [][NextOptions]_vars

\* manual category updates alone: every order of up to MaxRecorded requests

MaxRecorded == 2   \* manual category updates of a run

CorrectionSnippets ==
  Snippets \cup { "react hooks cheat sheet", "index funds and monthly savings plan" }

CorrectionOldCategories == { "General", "Uncategorized" }
CorrectionNewCategories == { "Lifestyle", "Finance" }

InitCorrections ==
  /\ Quiet /\ fb = IdleRun /\ sg = IdleRun /\ pp = IdleRun /\ nz = IdleRun /\ an = IdleRun

NextCorrections ==
  \E s \in CorrectionSnippets, o \in CorrectionOldCategories, n \in CorrectionNewCategories :
    RecordUpTo(MaxRecorded, s, o, n)

SpecCorrections == InitCorrections /\ [][NextCorrections]_vars

(***************************************************************************)
(* Properties                                                              *)
(***************************************************************************)

Done(p) == req[p].pc = "done"

\* C1: once a response has been returned for a conversation text, every
\* later request with the identical text is answered with that same
\* response and makes no call to the model client.
C1_LaterCallsRepeatResult ==
  \A p \in Procs :
    (Done(p) /\ req[p].prior # NoResult)
      => (req[p].out = "ok" /\ req[p].calls = 0 /\ req[p].res = req[p].prior)

\* C2: a request in whose pipeline an exception was raised still ends with
\* a valid result that holds exactly one emergency concept; the error is
\* never propagated to the caller.
C2_EmergencyResultOnException ==
  \A p \in Procs :
    (Done(p) /\ req[p].raised)
      => (req[p].out = "ok" /\ Len(req[p].res.concepts) = 1
                            /\ req[p].res.method = "emergency_fallback")

FallbackCategories == { "Finance", "Psychology", "Business", "Health", "General" }

\* C3: for every model output that is not JSON the fallback extraction
\* returns a well-formed result: every concept has a title, a category and a
\* confidence of at most 0.5, and the result carries its metadata.
C3_FallbackWellFormed ==
  fb.done =>
    /\ fb.out.status = "ok"
    /\ fb.out.method = "enhanced_fallback"
    /\ fb.out.domain \in FallbackCategories
    /\ \A i \in DOMAIN fb.out.concepts :
         /\ fb.out.concepts[i].title \notin { None, Absent }
         /\ fb.out.concepts[i].category \in FallbackCategories
         /\ fb.out.concepts[i].conf <= MarkerConfidence

C3_Witness ==
  /\ fb.done
  /\ Len(fb.text) = MaxTextLen
  /\ Len(fb.out.concepts) = 1
  /\ fb.out.concepts[1].conf = InsightConfidence

NonEmptyCount(raws) == Cardinality({ i \in DOMAIN raws : raws[i].content # "" })

\* C4: for every reply to the segmentation call the result has between 1
\* and 5 segments, and when the raw segments with non-empty content number
\* 0 or more than 5 it is exactly one segment holding the whole text.
C4_SegmentBound ==
  sg.done =>
    /\ Len(sg.out) \in 1..MaxSegments
    /\ ( sg.reply.kind = "json"
         /\ ( NonEmptyCount(sg.reply.segments) = 0
              \/ NonEmptyCount(sg.reply.segments) > MaxSegments ) )
       => ( Len(sg.out) = 1 /\ sg.out[1].content = sg.text )

C4_Witness ==
  /\ sg.done
  /\ sg.reply.kind = "json"
  /\ NonEmptyCount(sg.reply.segments) > MaxSegments
  /\ Len(sg.out) = 1
  /\ sg.out[1].content = sg.text

FailureKinds == { "throw", "text", "bad" }

\* C5: when the segmentation call throws or its reply is not JSON of the
\* expected shape, the step does not raise: the request goes on to the
\* per-segment extraction with exactly one segment holding the whole text.
C5_SegmentationFailsOpen ==
  [][ \A p \in Procs :
        ( req[p].pc = "segment" /\ req'[p].pc \notin { "segment", "idle" } )
          => /\ req'[p].pc = "multi"
             /\ req'[p].idx = 1
             /\ Len(req'[p].segs) \in 1..MaxSegments
             /\ req'[p].segKind \in FailureKinds
                  => ( Len(req'[p].segs) = 1 /\ req'[p].segs[1].content = req[p].text ) ]_vars

C5_Witness ==
  \E p \in Procs :
    /\ req[p].pc = "multi"
    /\ req[p].segKind \in FailureKinds
    /\ req[p].idx <= Len(req[p].segs)
    /\ req[p].segs[1].content = req[p].text

Beats(a, b) ==
  \/ a.conf > b.conf
  \/ a.conf = b.conf /\ a.snippets > b.snippets

\* C6: on the single-pass and the multi-segment path the result keeps, for
\* each exact title among the concepts, exactly one extracted concept: the
\* one with the highest confidence and, among ties, more code snippets.
C6_DedupKeepsBest ==
  pp.done =>
    \A i \in DOMAIN pp.input :
      LET kept == { k \in DOMAIN pp.out :
                      pp.out[k].title = pp.input[i].title /\ ~pp.out[k].tech }
      IN /\ Cardinality(kept) = 1
         /\ \A k \in kept : ~Beats(pp.input[i], pp.out[k])

\* C7: after deduplication and technique enrichment no two concepts of the
\* result have the same title, synthesized technique concepts included.
C7_UniqueTitles ==
  ( pp.done /\ pp.path = "single" ) =>
    \A i, j \in DOMAIN pp.out : i # j => pp.out[i].title # pp.out[j].title

\* C8: no relatedConcepts list of a result has two entries that are equal
\* ignoring case, on the single-pass path (back-links included) and on the
\* multi-segment path.
C8_RelatedUnique ==
  pp.done =>
    \A k \in DOMAIN pp.out :
      \A i, j \in DOMAIN pp.out[k].related :
        i # j => Lower(pp.out[k].related[i]) # Lower(pp.out[k].related[j])

\* C9: every normalization the pipeline performs after a correction was
\* recorded consults that correction, without a restart: the entries of the
\* learned-mapping document at that time are entries of the mapping the
\* serving extractor reads.
C9_CorrectionsConsulted ==
  \A p \in Procs :
    \A k \in DOMAIN req[p].norm :
      \A i \in DOMAIN req[p].norm[k].recorded :
        InList(req[p].norm[k].recorded[i], learned)

NoEarlierRule(suggested, valid) ==
  /\ ~InList(suggested, valid)
  /\ ~\E i \in DOMAIN valid : Lower(valid[i]) = Lower(suggested)
  /\ StaticMatch(suggested, valid) = None

\* C10: after a correction (S, old, new) with new among the valid
\* categories, a category text that shares at least 2 significant words
\* with S and matches no exact, case-insensitive or static rule is
\* normalized to new.
C10_LearnedCategoryApplied ==
  \A p \in Procs :
    \A k \in DOMAIN req[p].norm :
      LET n == req[p].norm[k]
      IN \A i \in DOMAIN n.recorded :
           ( /\ InList(n.recorded[i].new_category, n.valid)
             /\ Cardinality(SigWords(n.recorded[i].key) \cap SigWords(n.suggested)) >= MinOverlap
             /\ NoEarlierRule(n.suggested, n.valid) )
             => n.result = n.recorded[i].new_category

UncategorizedSpellings == { "UNCATEGORIZED", "Uncategorized", "uncategorized" }

NullInput(s) == s = "" \/ s \in UncategorizedSpellings

\* C11: _normalize_category returns None for the empty suggestion and for
\* "uncategorized" in any letter case, whatever the category list and the
\* learned mapping hold, even when the list holds that very string.
C11_UncategorizedIsNull ==
  ( nz.done /\ NullInput(nz.suggested) ) => nz.out = None

C11_Witness ==
  /\ nz.done
  /\ nz.suggested = "Uncategorized"
  /\ InList(nz.suggested, nz.valid)
  /\ nz.store # <<>>
  /\ nz.out = None

\* C12 as stated: whenever the result is a category c, normalizing c gives c
\* again, and every member of the category list is normalized to itself.
C12_NormalizeIdempotent ==
  nz.done =>
    /\ nz.out # None => nz.again = nz.out
    /\ InList(nz.suggested, nz.valid) => nz.out = nz.suggested

\* C12 amended: a member x of the category list is normalized to itself
\* unless it is empty or "uncategorized" (then to None), so that
\* normalize(normalize(x)) = normalize(x); and a result that is a member of
\* the list other than "uncategorized" is normalized to itself.
C12_NormalizeIdempotentOnValid ==
  nz.done =>
    /\ InList(nz.suggested, nz.valid) =>
         /\ nz.out = IF NullInput(nz.suggested) THEN None ELSE nz.suggested
         /\ nz.again = nz.out
    /\ ( InList(nz.out, nz.valid) /\ ~NullInput(nz.out) ) => nz.again = nz.out

C12_Witness ==
  /\ nz.done
  /\ nz.suggested = "Algorithm Technique"
  /\ InList(nz.suggested, nz.valid)
  /\ nz.out = nz.suggested
  /\ nz.again = nz.out

\* C20: for every suggestion, category list and learned mapping the result
\* of _normalize_category is None or a member of the category list.
C20_ResultInValidCategories ==
  nz.done => ( nz.out = None \/ InList(nz.out, nz.valid) )

Returned(a) == a.phase \in { "DONE", "RAISED" }

WellFormedSegmentResult(a) ==
  /\ a.phase = "DONE"
  /\ a.out.status = "ok"
  /\ \A i \in DOMAIN a.out.concepts :
       a.out.concepts[i].title \notin { None, Absent, "" }

\* C15: when the model call for a segment's extraction fails, or its output
\* is not JSON or is JSON of another shape than an object, the analysis of
\* the segment falls back to the fallback extraction and returns a
\* well-formed segment result; no exception leaves the segment.
C15_ExtractionFailsOpen ==
  ( Returned(an) /\ an.reply.kind \in { "throw", "text", "bad" } )
    => WellFormedSegmentResult(an)

Malformed(raw) == ~raw.obj \/ "title" \notin raw.given

\* C16: when an element of the concepts array is malformed (not an object,
\* or without a title), no error is raised, the result has a concept for
\* every element of the array, and every other element is returned with
\* its own title.
C16_PerConceptIsolation ==
  ( /\ Returned(an)
    /\ an.reply.kind = "json"
    /\ \E i \in DOMAIN an.reply.concepts : Malformed(an.reply.concepts[i]) )
    => /\ WellFormedSegmentResult(an)
       /\ Len(an.out.concepts) = Len(an.reply.concepts)
       /\ \A i \in DOMAIN an.reply.concepts :
            ~Malformed(an.reply.concepts[i])
              => an.out.concepts[i].title = an.reply.concepts[i].title

SegmentEdges ==
  { << "PENDING", "PROMPTED" >>,
    << "PROMPTED", "PARSED" >>, << "PROMPTED", "PARSE_FAILED" >>,
    << "PARSED", "NORMALIZED" >>, << "PARSE_FAILED", "FALLBACK_RECOVERED" >>,
    << "NORMALIZED", "DONE" >>, << "FALLBACK_RECOVERED", "DONE" >> }

\* C17: the processing of a segment moves only along PENDING -> PROMPTED ->
\* PARSED or PARSE_FAILED -> NORMALIZED (after PARSED) or FALLBACK_RECOVERED
\* (after PARSE_FAILED) -> DONE; no step leaves PROMPTED or PARSED for
\* another outcome, such as an error leaving the segment.
C17_SegmentStateMachine ==
  [][ an' # an => << an.phase, an'.phase >> \in SegmentEdges ]_vars

ExtractionMethods == { "single_pass", "simple_fallback", "multi_pass" }

\* C13: a response served from the result cache carries metadata that
\* marks the cache hit, so that it differs from the metadata of a computed
\* response.
C13_CacheHitMarked ==
  \A p \in Procs :
    ( Done(p) /\ req[p].hit ) => req[p].res.method \notin ExtractionMethods

DegradedMethods == { "simple_fallback", "enhanced_fallback", "emergency_fallback" }

\* C14: a request whose segmentation call threw still returns a result,
\* and the metadata of that result names a fallback extraction method.
C14_SegmentationThrowMarked ==
  \A p \in Procs :
    ( Done(p) /\ req[p].segKind = "throw" )
      => ( req[p].out = "ok" /\ req[p].res.method \in DegradedMethods )

\* the contents of the first n segments
SegmentTexts(segs, n) == [ i \in 1..n |-> segs[i].content ]

C19_CategoriesInTaxonomy ==
  \A p \in Procs :
    ( Done(p) /\ req[p].out = "ok" ) =>
      \E valid \in CategoryLists :
        \A i \in DOMAIN req[p].res.concepts :
          InList(req[p].res.concepts[i].category, valid)

\* C21: every concept of a returned result has a non-empty categoryPath
\* whose last element is the concept's category.
C21_PathEndsInCategory ==
  \A p \in Procs :
    ( Done(p) /\ req[p].out = "ok" ) =>
      \A i \in DOMAIN req[p].res.concepts :
        LET c == req[p].res.concepts[i]
        IN c.path # <<>> /\ c.path[Len(c.path)] = c.category

\* C22: every concept of a returned result has a confidence score between
\* 0 and 1 (0 and 100 percent), whatever confidence the model supplied.
C22_ConfidenceInRange ==
  ( an.phase = "DONE" /\ an.out.status = "ok" ) =>
    \A i \in DOMAIN an.out.concepts :
      StandardizeConcept(an.out.concepts[i]).conf \in 0..100

TechniqueCount(concepts) == Cardinality({ i \in DOMAIN concepts : concepts[i].tech })

\* C23: a result of the post-processing holds at most 3 synthesized
\* technique concepts, however many techniques the key points of its problem
\* concepts name.
C23_AtMostThreeTechniques ==
  pp.done => TechniqueCount(pp.out) <= MaxTechniques

\* a problem concept naming four techniques was enriched with three of them
C23_Witness ==
  /\ pp.done /\ pp.path = "single"
  /\ \E i \in DOMAIN pp.input : Cardinality(TechniquesOf(pp.input[i])) > MaxTechniques
  /\ TechniqueCount(pp.out) = MaxTechniques

\* the problem concept a synthesized technique concept was derived from is
\* the one whose title opens its relatedConcepts
DerivedFrom(t, q) == t.tech /\ ~q.tech /\ t.related # <<>> /\ t.related[1] = q.title

\* C24: for every synthesized technique concept T of a result and the
\* problem concept P it was derived from, P's title is among T's related
\* concepts and T's title is among P's.
C24_TechniqueLinksBothWays ==
  pp.done =>
    \A t, q \in DOMAIN pp.out :
      DerivedFrom(pp.out[t], pp.out[q]) =>
        /\ InList(pp.out[q].title, pp.out[t].related)
        /\ InList(pp.out[t].title, pp.out[q].related)

\* the keyword verdict is inconclusive and the model call throws or answers
\* with something that is not one of the three labels
NoDomainVerdict(a) ==
  /\ KeywordDomain(a.text) = None
  /\ ( a.domainReply = Throw \/ StripUpper(a.domainReply) \notin DomainTypes )

\* C25: _detect_domain_type never raises and returns TECHNICAL,
\* NON_TECHNICAL or MIXED; it returns TECHNICAL when the keyword verdict is
\* inconclusive and the model call throws or answers with another text.
C25_DomainDetectionTotal ==
  Returned(an) =>
    /\ an.out.domain \in DomainTypes
    /\ NoDomainVerdict(an) => an.out.domain = "TECHNICAL"

\* the model call of the domain detection threw on an inconclusive text
C25_Witness ==
  /\ Returned(an)
  /\ KeywordDomain(an.text) = None /\ an.domainReply = Throw
  /\ an.out.domain = "TECHNICAL"

\* the 'Title: <t>' markers of a text: a "Title:" piece followed by a title
TitleMarkers(text) ==
  { i \in DOMAIN text : text[i] = TokTitle /\ i < Len(text) /\ text[i + 1] = TokName }

\* C26: for a model output that is not JSON and holds 'Title: <t>' markers
\* the fallback extraction returns one concept for each marker, titled <t>,
\* and no "Key Insights" concept.
C26_OneConceptPerMarker ==
  ( fb.done /\ TitleMarkers(fb.text) # {} ) =>
    /\ Len(fb.out.concepts) = Cardinality(TitleMarkers(fb.text))
    /\ \A i \in DOMAIN fb.out.concepts : fb.out.concepts[i].title = TokName

\* the document is a mapping: one entry for each key, each the complete
\* entry of a recorded update
WellFormedStore(store) ==
  /\ \A i, j \in DOMAIN store : store[i].key = store[j].key => i = j
  /\ \A i \in DOMAIN store :
       \E k \in DOMAIN corrections :
         store[i] = MappingEntry(corrections[k].snippet, corrections[k].old,
                                 corrections[k].new)

\* no later update was recorded for the snippet of update k
LastForSnippet(k) ==
  \A j \in DOMAIN corrections :
    ContentKey(corrections[j].snippet) = ContentKey(corrections[k].snippet) => j <= k

C28_HitIgnoresOptions ==
  [][ started' # started =>
        \A p \in Procs :
          ( req'[p] # req[p] /\ cache[GenerateCacheKey(req'[p].text)] # NoResult ) =>
            /\ req'[p].pc = "done" /\ req'[p].out = "ok"
            /\ req'[p].calls = 0
            /\ req'[p].res = cache[GenerateCacheKey(req'[p].text)] ]_vars

\* C29: a request that ends in an error leaves the result cache as it was.
C29_ErrorKeepsCache ==
  [][ \A p \in Procs :
        ( req'[p] # req[p] /\ req'[p].pc = "done" /\ req'[p].out = "http500" )
          => cache' = cache ]_vars

\* a request between its cache miss and its response
InFlight(p) == req[p].pc \in { "single", "segment", "multi" }

\* C30: of two requests with the same text that are in flight at once, at
\* most one has made model calls.
C30_SingleFlight ==
  \A p, q \in Procs :
    ( p # q /\ InFlight(p) /\ InFlight(q) /\ req[p].text = req[q].text )
      => ( req[p].calls = 0 \/ req[q].calls = 0 )

====
